---- MODULE Spec2Model ----
(***************************************************************************)
(* A model of grading.py: the CSV ingestion loop, the six analysis         *)
(* functions and main(), which calls them in order and writes the report   *)
(* StudentScoresAnalysis.txt.                                              *)
(*                                                                         *)
(* Rows are Python lists [sid, term, s1, ..., s8]; here they are tuples of *)
(* length 10 (index i of the source is index i+1 here).  A Python float    *)
(* that results from a division is kept as the exact fraction              *)
(* [num |-> n, den |-> d]; fractions are compared by cross-multiplication. *)
(* The inexactness of binary floating point is not modelled.               *)
(***************************************************************************)
EXTENDS Integers, Sequences, FiniteSets, TLC

(* ------------------------------ bounds -------------------------------- *)

\* The longest CSV body (number of data rows) that is read.
MaxRecords == 3

\* The longest StudentAverage list handed to get_most_improved_student
\* directly (specification SpecImproved), and the largest sum of the eight
\* scores behind an average of that list.
MaxEntries == 4
MaxSum == 2

(* ------------------------------ inputs -------------------------------- *)

StudentIds == {"s1", "s2"}

Zeros == <<0, 0, 0, 0, 0, 0, 0, 0>>
LowScores == <<90, 80, 50, 60, 50, 40, 30, 20>>
HighScores == <<60, 80, 75, 60, 70, 40, 45, 20>>

ScoreVectors == {Zeros, LowScores, HighScores}

(* --------------------------- program constants ------------------------ *)

subjects == <<"Chi", "Eng", "Math", "GS", "CS", "Music", "VA", "PE">>

terms == <<"1", "2">>

\* Python's None, and what an f-string makes of a value.
None == "<None>"

NA == "N/A"

Format(value) == IF value = None THEN "None" ELSE value

\* The well-formed rows: term in {"1","2"} and one score per subject.
Rows == {<<sid, term>> \o scores : sid \in StudentIds, term \in {"1", "2"}, scores \in ScoreVectors}

(* ------------------------------ arithmetic ---------------------------- *)

RECURSIVE Sum(_)
Sum(s) == IF s = <<>> THEN 0 ELSE Head(s) + Sum(Tail(s))

\* The float n / d of the source (d # 0), kept exact.
Quot(n, d) == [num |-> n, den |-> d]

Sign(d) == IF d < 0 THEN -1 ELSE 1

RatLess(x, y) == x.num * y.den * Sign(x.den) * Sign(y.den) < y.num * x.den * Sign(x.den) * Sign(y.den)

RatEq(x, y) == x.num * y.den = y.num * x.den

RatSub(x, y) == Quot(x.num * y.den - y.num * x.den, x.den * y.den)

RatDiv(x, y) == Quot(x.num * y.den, x.den * y.num)

RatTimes(x, k) == Quot(x.num * k, x.den)

RatIsZero(x) == x.num = 0

RatPositive(x) == x.num * Sign(x.den) > 0

\* The nearest integer to p / q (q > 0), a half going to the even neighbour.
RoundHalfEven(p, q) ==
    LET f == p \div q
        r == p - f * q
    IN  IF 2 * r < q THEN f
        ELSE IF 2 * r > q THEN f + 1
        ELSE IF f % 2 = 0 THEN f ELSE f + 1

\* round(x, 2): the nearest multiple of 1/100.
Round2(x) ==
    LET p == x.num * Sign(x.den) * 100
        q == x.den * Sign(x.den)
    IN  Quot(RoundHalfEven(p, q), 100)

(* ------------------- calculate_student_averages ----------------------- *)

\* The dict `students` is a sequence of [sid, terms] in insertion order, and
\* each students[sid] a sequence of [term, scores] in insertion order.
HasSid(students, sid) == \E i \in DOMAIN students : students[i].sid = sid

HasTerm(student_terms_data, term) == \E j \in DOMAIN student_terms_data : student_terms_data[j].term = term

\* A variant of GroupRow that keeps the first score vector of a pair.
GroupRowKeepFirst(students, row) ==
    LET sid == row[1]
        term == row[2]
        scores == SubSeq(row, 3, Len(row))
        withSid == IF HasSid(students, sid) THEN students
                   ELSE Append(students, [sid |-> sid, terms |-> <<>>])
        Put(d) == IF HasTerm(d, term) THEN d
                  ELSE Append(d, [term |-> term, scores |-> scores])
    IN  [i \in DOMAIN withSid |->
            IF withSid[i].sid = sid
            THEN [sid |-> sid, terms |-> Put(withSid[i].terms)]
            ELSE withSid[i]]

\* One iteration of the grouping loop.
GroupRow(students, row) ==
    LET sid == row[1]
        term == row[2]
        scores == SubSeq(row, 3, Len(row))
        withSid == IF HasSid(students, sid) THEN students
                   ELSE Append(students, [sid |-> sid, terms |-> <<>>])
        WithTerm(d) == IF HasTerm(d, term) THEN d
                       ELSE Append(d, [term |-> term, scores |-> <<>>])
        Put(d) == [j \in DOMAIN WithTerm(d) |->
                      IF WithTerm(d)[j].term = term
                      THEN [term |-> term, scores |-> scores]
                      ELSE WithTerm(d)[j]]
    IN  [i \in DOMAIN withSid |->
            IF withSid[i].sid = sid
            THEN [sid |-> sid, terms |-> Put(withSid[i].terms)]
            ELSE withSid[i]]

RECURSIVE GroupRows(_, _)
GroupRows(students, rows) ==
    IF rows = <<>> THEN students
    ELSE GroupRows(GroupRow(students, Head(rows)), Tail(rows))

RECURSIVE TermAverages(_, _)
TermAverages(sid, student_terms_data) ==
    IF student_terms_data = <<>> THEN <<>>
    ELSE LET term == Head(student_terms_data).term
             scores == Head(student_terms_data).scores
         IN  (IF scores # <<>>
              THEN << <<term, sid, Quot(Sum(scores), Len(scores))>> >>
              ELSE <<>>)
             \o TermAverages(sid, Tail(student_terms_data))

RECURSIVE StudentAverages(_)
StudentAverages(students) ==
    IF students = <<>> THEN <<>>
    ELSE TermAverages(Head(students).sid, Head(students).terms)
         \o StudentAverages(Tail(students))

calculate_student_averages(rows) == StudentAverages(GroupRows(<<>>, rows))

(* -------------------- calculate_class_averages ------------------------ *)

\* [row for row in data_list if row[1] == term]
TermRows(rows, term) == SelectSeq(rows, LAMBDA row : row[2] = term)

\* A variant of SubjectScores that does not filter by term.
SubjectScoresAnyTerm(rows, term, subject_index) ==
    [i \in 1..Len(rows) |-> rows[i][subject_index + 2]]

\* [row[subject_index+2] for row in data_list if row[1] == term]
SubjectScores(rows, term, subject_index) ==
    [i \in 1..Len(TermRows(rows, term)) |-> TermRows(rows, term)[i][subject_index + 2]]

\* The k-th iteration of the double loop: term k_term, subject k_subject.
LoopTerm(k) == terms[((k - 1) \div Len(subjects)) + 1]

LoopSubject(k) == ((k - 1) % Len(subjects)) + 1

LoopLength == Len(terms) * Len(subjects)

RECURSIVE ClassAveragesFrom(_, _)
ClassAveragesFrom(rows, k) ==
    IF k > LoopLength THEN <<>>
    ELSE LET subject_scores == SubjectScores(rows, LoopTerm(k), LoopSubject(k))
         IN  (IF subject_scores # <<>>
              THEN << <<LoopTerm(k), subjects[LoopSubject(k)],
                        Quot(Sum(subject_scores), Len(subject_scores))>> >>
              ELSE <<>>)
             \o ClassAveragesFrom(rows, k + 1)

calculate_class_averages(rows) == ClassAveragesFrom(rows, 1)

(* --------------- identify_highest/lowest_achieving_students ----------- *)

RECURSIVE MaxFrom(_, _, _, _)
MaxFrom(rows, column, best, i) ==
    IF i > Len(rows) THEN best
    ELSE MaxFrom(rows, column,
                 IF rows[i][column] > best[column] THEN rows[i] ELSE best, i + 1)

RECURSIVE MaxLastFrom(_, _, _, _)
MaxLastFrom(rows, column, best, i) ==
    IF i > Len(rows) THEN best
    ELSE MaxLastFrom(rows, column,
                     IF rows[i][column] >= best[column] THEN rows[i] ELSE best, i + 1)

\* A variant of MaxByColumn in which the last maximal row wins.
MaxByColumnLast(rows, column) == MaxLastFrom(rows, column, rows[1], 2)

\* max(rows, key=lambda x: x[column]) of a non-empty list: the first maximal row.
MaxByColumn(rows, column) == MaxFrom(rows, column, rows[1], 2)

RECURSIVE MinFrom(_, _, _, _)
MinFrom(rows, column, best, i) ==
    IF i > Len(rows) THEN best
    ELSE MinFrom(rows, column,
                 IF rows[i][column] < best[column] THEN rows[i] ELSE best, i + 1)

\* A variant of MinByColumn that returns the first row whatever its score.
MinByColumnFirstRow(rows, column) == rows[1]

\* min(rows, key=lambda x: x[column]) of a non-empty list: the first minimal row.
MinByColumn(rows, column) == MinFrom(rows, column, rows[1], 2)

RECURSIVE HighestFrom(_, _)
HighestFrom(rows, k) ==
    IF k > LoopLength THEN <<>>
    ELSE LET term_subject_data == TermRows(rows, LoopTerm(k))
             highest_score_row == MaxByColumn(term_subject_data, LoopSubject(k) + 2)
         IN  (IF term_subject_data # <<>>
              THEN << <<LoopTerm(k), subjects[LoopSubject(k)],
                        highest_score_row[1], highest_score_row[LoopSubject(k) + 2]>> >>
              ELSE <<>>)
             \o HighestFrom(rows, k + 1)

identify_highest_achieving_students(rows) == HighestFrom(rows, 1)

RECURSIVE LowestFrom(_, _)
LowestFrom(rows, k) ==
    IF k > LoopLength THEN <<>>
    ELSE LET term_subject_data == TermRows(rows, LoopTerm(k))
             lowest_score_row == MinByColumn(term_subject_data, LoopSubject(k) + 2)
         IN  (IF term_subject_data # <<>>
              THEN << <<LoopTerm(k), subjects[LoopSubject(k)],
                        lowest_score_row[1], lowest_score_row[LoopSubject(k) + 2]>> >>
              ELSE <<>>)
             \o LowestFrom(rows, k + 1)

identify_lowest_achieving_students(rows) == LowestFrom(rows, 1)

(* ---------------------- analyze_performance_trends -------------------- *)

\* next((avg for avg in class_averages if avg[0] == term and avg[1] == subject),
\* None).  None is <<>> here: both are false in the `if` that follows.
FirstAverage(averages, term, subject) ==
    LET hits == {i \in DOMAIN averages : averages[i][1] = term /\ averages[i][2] = subject}
    IN  IF hits = {} THEN <<>>
        ELSE averages[CHOOSE i \in hits : \A j \in hits : i <= j]

\* if term_one_average and term_two_average
BothAverages(averages, subject) ==
    /\ FirstAverage(averages, "1", subject) # <<>>
    /\ FirstAverage(averages, "2", subject) # <<>>

\* ((term_two_average[2] - term_one_average[2]) / term_one_average[2]) * 100
PercentageChange(term_one_average, term_two_average) ==
    RatTimes(RatDiv(RatSub(term_two_average[3], term_one_average[3]),
                    term_one_average[3]), 100)

\* A variant of TrendEntry that leaves out the rounding.
TrendEntryUnrounded(averages, subject) ==
    <<subject, PercentageChange(FirstAverage(averages, "1", subject),
                                FirstAverage(averages, "2", subject))>>

\* [subject, round(percentage_change, 2)]
TrendEntry(averages, subject) ==
    <<subject, Round2(PercentageChange(FirstAverage(averages, "1", subject),
                                       FirstAverage(averages, "2", subject)))>>

\* The division raises ZeroDivisionError for a subject whose two averages
\* exist and whose term-1 average is 0.
TrendRaises(averages) ==
    \E i \in DOMAIN subjects :
        /\ BothAverages(averages, subjects[i])
        /\ RatIsZero(FirstAverage(averages, "1", subjects[i])[3])

RECURSIVE TrendsFrom(_, _)
TrendsFrom(averages, i) ==
    IF i > Len(subjects) THEN <<>>
    ELSE (IF BothAverages(averages, subjects[i])
          THEN <<TrendEntry(averages, subjects[i])>>
          ELSE <<>>)
         \o TrendsFrom(averages, i + 1)

\* The outcome of a call: the exception raised, or the list returned.
analyze_performance_trends(rows) ==
    LET class_averages_ == calculate_class_averages(rows)
    IN  IF TrendRaises(class_averages_)
        THEN [raised |-> TRUE, value |-> <<>>]
        ELSE [raised |-> FALSE, value |-> TrendsFrom(class_averages_, 1)]

(* ----------------------- get_most_improved_student -------------------- *)

\* max(entries, key=lambda x: x[column]) for a fraction key: the first maximal
\* entry of a non-empty list.
RECURSIVE RatMaxFrom(_, _, _, _)
RatMaxFrom(entries, column, best, i) ==
    IF i > Len(entries) THEN best
    ELSE RatMaxFrom(entries, column,
                    IF RatLess(best[column], entries[i][column]) THEN entries[i] ELSE best,
                    i + 1)

RatMaxByColumn(entries, column) == RatMaxFrom(entries, column, entries[1], 2)

\* The dict student_term_avg is a sequence of [sid, t1, t2] in insertion
\* order; a slot is <<>> for None and <<avg>> for an average.
RECURSIVE GroupAverages(_, _)
GroupAverages(student_term_avg, entries) ==
    IF entries = <<>> THEN student_term_avg
    ELSE LET term == Head(entries)[1]
             sid == Head(entries)[2]
             avg == Head(entries)[3]
             withSid == IF HasSid(student_term_avg, sid) THEN student_term_avg
                        ELSE Append(student_term_avg, [sid |-> sid, t1 |-> <<>>, t2 |-> <<>>])
             put == [i \in DOMAIN withSid |->
                        IF withSid[i].sid # sid THEN withSid[i]
                        ELSE IF term = "1" THEN [withSid[i] EXCEPT !.t1 = <<avg>>]
                        ELSE IF term = "2" THEN [withSid[i] EXCEPT !.t2 = <<avg>>]
                        ELSE withSid[i]]
         IN  GroupAverages(put, Tail(entries))

\* A variant of Improvements that counts a missing term as an average of 0.
RECURSIVE ImprovementsMissingAsZero(_)
ImprovementsMissingAsZero(student_term_avg) ==
    IF student_term_avg = <<>> THEN <<>>
    ELSE LET t == Head(student_term_avg)
             a1 == IF t.t1 = <<>> THEN Quot(0, 1) ELSE t.t1[1]
             a2 == IF t.t2 = <<>> THEN Quot(0, 1) ELSE t.t2[1]
         IN  << <<t.sid, RatSub(a2, a1)>> >>
             \o ImprovementsMissingAsZero(Tail(student_term_avg))

RECURSIVE Improvements(_)
Improvements(student_term_avg) ==
    IF student_term_avg = <<>> THEN <<>>
    ELSE LET t == Head(student_term_avg)
         IN  (IF t.t1 # <<>> /\ t.t2 # <<>>
              THEN << <<t.sid, RatSub(t.t2[1], t.t1[1])>> >>
              ELSE <<>>)
             \o Improvements(Tail(student_term_avg))

get_most_improved_student(averages) ==
    LET improvements == Improvements(GroupAverages(<<>>, averages))
    IN  IF improvements # <<>> THEN RatMaxByColumn(improvements, 2)[1] ELSE None

(* --------------------------- main: selections ------------------------- *)

\* max([avg for avg in class_averages if avg[0] == '1'], key=lambda x: x[2],
\*     default=["N/A", "N/A", 0])[1]
HighestTermOneSubject(averages) ==
    LET term_one == SelectSeq(averages, LAMBDA avg : avg[1] = "1")
    IN  IF term_one = <<>> THEN NA ELSE RatMaxByColumn(term_one, 3)[2]

\* next((student[2] for student in students if student[0] == term and
\*       student[1] == subject), "N/A")
FirstStudent(students, term, subject) ==
    LET hits == {i \in DOMAIN students : students[i][1] = term /\ students[i][2] = subject}
    IN  IF hits = {} THEN NA
        ELSE students[CHOOSE i \in hits : \A j \in hits : i <= j][3]

\* max([trend for trend in performance_trends if trend[1] > 0],
\*     key=lambda x: x[1], default=["N/A", "N/A", 0])[0]
HighestTrendSubject(trends) ==
    LET positive == SelectSeq(trends, LAMBDA trend : RatPositive(trend[2]))
    IN  IF positive = <<>> THEN NA ELSE RatMaxByColumn(positive, 2)[1]

(* ------------------------------- state -------------------------------- *)

VARIABLES
    pc,                             \* the statement main() is at
    error,                          \* the exception raised, "" for none
    data_list,                      \* get_data_list's list of rows
    student_averages,
    class_averages,
    highest_students,
    lowest_students,
    performance_trends,
    most_improved_student,
    highest_term_one_subject,
    highest_math_student_term_one,
    lowest_cs_student_term_two,
    highest_trend_subject,
    report                          \* StudentScoresAnalysis.txt as this run leaves it

analysed == <<student_averages, class_averages, highest_students, lowest_students,
              performance_trends, most_improved_student>>

selected == <<highest_term_one_subject, highest_math_student_term_one,
              lowest_cs_student_term_two, highest_trend_subject>>

vars == <<pc, error, data_list, analysed, selected, report>>

\* A variant of MainOrder that opens the report before the trend analysis.
MainOrderOpenFirst ==
    <<"input", "get_data_list", "student_averages", "class_averages",
      "highest_students", "lowest_students", "open_report", "performance_trends",
      "most_improved_student", "highest_term_one_subject",
      "highest_math_student_term_one", "lowest_cs_student_term_two",
      "highest_trend_subject", "write", "print", "done">>

\* The statements of main() in the order they are executed.
MainOrder ==
    <<"input", "get_data_list", "student_averages", "class_averages",
      "highest_students", "lowest_students", "performance_trends",
      "most_improved_student", "highest_term_one_subject",
      "highest_math_student_term_one", "lowest_cs_student_term_two",
      "highest_trend_subject", "open_report", "write", "print", "done">>

After(step) == MainOrder[(CHOOSE i \in DOMAIN MainOrder : MainOrder[i] = step) + 1]

NoReport == [opened |-> FALSE, lines |-> <<>>]

Init ==
    /\ pc = "input"
    /\ error = ""
    /\ data_list = <<>>
    /\ student_averages = <<>>
    /\ class_averages = <<>>
    /\ highest_students = <<>>
    /\ lowest_students = <<>>
    /\ performance_trends = <<>>
    /\ most_improved_student = None
    /\ highest_term_one_subject = None
    /\ highest_math_student_term_one = None
    /\ lowest_cs_student_term_two = None
    /\ highest_trend_subject = None
    /\ report = NoReport

(* ----------------------------- get_data_list -------------------------- *)

Prompt ==
    /\ pc = "input"
    /\ pc' = After("input")
    /\ UNCHANGED <<error, data_list, analysed, selected, report>>

OpenCsv ==
    /\ pc = "get_data_list"
    /\ pc' = "next_header"
    /\ UNCHANGED <<error, data_list, analysed, selected, report>>

\* open() raises FileNotFoundError: the handler prints and calls sys.exit(1).
FileNotFound ==
    /\ pc = "get_data_list"
    /\ pc' = "exit_1"
    /\ error' = "FileNotFoundError"
    /\ UNCHANGED <<data_list, analysed, selected, report>>

SkipHeader ==
    /\ pc = "next_header"
    /\ pc' = "read_rows"
    /\ UNCHANGED <<error, data_list, analysed, selected, report>>

\* next(csv_reader) on a file without any line: StopIteration, not caught.
EmptyFile ==
    /\ pc = "next_header"
    /\ pc' = "traceback"
    /\ error' = "StopIteration"
    /\ UNCHANGED <<data_list, analysed, selected, report>>

ReadRow ==
    /\ pc = "read_rows"
    /\ Len(data_list) < MaxRecords
    /\ \E row \in Rows : data_list' = Append(data_list, row)
    /\ UNCHANGED <<pc, error, analysed, selected, report>>

\* float(x) raises ValueError: the handler prints and calls sys.exit(1).
\* get_data_list does not return, so its local list is lost.
BadScore ==
    /\ pc = "read_rows"
    /\ pc' = "exit_1"
    /\ error' = "ValueError"
    /\ data_list' = <<>>
    /\ UNCHANGED <<analysed, selected, report>>

\* row[1] of a row with fewer than two fields: IndexError, not caught.
ShortRow ==
    /\ pc = "read_rows"
    /\ pc' = "traceback"
    /\ error' = "IndexError"
    /\ data_list' = <<>>
    /\ UNCHANGED <<analysed, selected, report>>

EndOfRows ==
    /\ pc = "read_rows"
    /\ pc' = After("get_data_list")
    /\ UNCHANGED <<error, data_list, analysed, selected, report>>

(* ------------------------------ main: analysis ------------------------ *)

\* A variant of CalcStudentAverages whose grouping loop consumes data_list.
CalcStudentAveragesConsuming ==
    /\ pc = "student_averages"
    /\ student_averages' = calculate_student_averages(data_list)
    /\ data_list' = <<>>
    /\ pc' = After("student_averages")
    /\ UNCHANGED <<error, class_averages, highest_students, lowest_students,
                   performance_trends, most_improved_student, selected, report>>

CalcStudentAverages ==
    /\ pc = "student_averages"
    /\ student_averages' = calculate_student_averages(data_list)
    /\ pc' = After("student_averages")
    /\ UNCHANGED <<error, data_list, class_averages, highest_students, lowest_students,
                   performance_trends, most_improved_student, selected, report>>

CalcClassAverages ==
    /\ pc = "class_averages"
    /\ class_averages' = calculate_class_averages(data_list)
    /\ pc' = After("class_averages")
    /\ UNCHANGED <<error, data_list, student_averages, highest_students, lowest_students,
                   performance_trends, most_improved_student, selected, report>>

IdentifyHighest ==
    /\ pc = "highest_students"
    /\ highest_students' = identify_highest_achieving_students(data_list)
    /\ pc' = After("highest_students")
    /\ UNCHANGED <<error, data_list, student_averages, class_averages, lowest_students,
                   performance_trends, most_improved_student, selected, report>>

IdentifyLowest ==
    /\ pc = "lowest_students"
    /\ lowest_students' = identify_lowest_achieving_students(data_list)
    /\ pc' = After("lowest_students")
    /\ UNCHANGED <<error, data_list, student_averages, class_averages, highest_students,
                   performance_trends, most_improved_student, selected, report>>

AnalyzeTrends ==
    /\ pc = "performance_trends"
    /\ LET outcome == analyze_performance_trends(data_list)
       IN  /\ ~outcome.raised
           /\ performance_trends' = outcome.value
    /\ pc' = After("performance_trends")
    /\ UNCHANGED <<error, data_list, student_averages, class_averages, highest_students,
                   lowest_students, most_improved_student, selected, report>>

\* The division by a zero term-1 average: ZeroDivisionError, not caught.
AnalyzeTrendsRaises ==
    /\ pc = "performance_trends"
    /\ analyze_performance_trends(data_list).raised
    /\ pc' = "traceback"
    /\ error' = "ZeroDivisionError"
    /\ UNCHANGED <<data_list, analysed, selected, report>>

MostImproved ==
    /\ pc = "most_improved_student"
    /\ most_improved_student' = get_most_improved_student(student_averages)
    /\ pc' = After("most_improved_student")
    /\ UNCHANGED <<error, data_list, student_averages, class_averages, highest_students,
                   lowest_students, performance_trends, selected, report>>

(* ------------------------------ main: report -------------------------- *)

SelectHighestTermOneSubject ==
    /\ pc = "highest_term_one_subject"
    /\ highest_term_one_subject' = HighestTermOneSubject(class_averages)
    /\ pc' = After("highest_term_one_subject")
    /\ UNCHANGED <<error, data_list, analysed, highest_math_student_term_one,
                   lowest_cs_student_term_two, highest_trend_subject, report>>

SelectHighestMathStudent ==
    /\ pc = "highest_math_student_term_one"
    /\ highest_math_student_term_one' = FirstStudent(highest_students, "1", "Math")
    /\ pc' = After("highest_math_student_term_one")
    /\ UNCHANGED <<error, data_list, analysed, highest_term_one_subject,
                   lowest_cs_student_term_two, highest_trend_subject, report>>

SelectLowestCsStudent ==
    /\ pc = "lowest_cs_student_term_two"
    /\ lowest_cs_student_term_two' = FirstStudent(lowest_students, "2", "CS")
    /\ pc' = After("lowest_cs_student_term_two")
    /\ UNCHANGED <<error, data_list, analysed, highest_term_one_subject,
                   highest_math_student_term_one, highest_trend_subject, report>>

SelectHighestTrendSubject ==
    /\ pc = "highest_trend_subject"
    /\ highest_trend_subject' = HighestTrendSubject(performance_trends)
    /\ pc' = After("highest_trend_subject")
    /\ UNCHANGED <<error, data_list, analysed, highest_term_one_subject,
                   highest_math_student_term_one, lowest_cs_student_term_two, report>>

\* The five f-strings of the with block, in order.
ReportLines ==
    <<"The SID is " \o Format(most_improved_student),
      "The subject is " \o Format(highest_term_one_subject),
      "The SID is " \o Format(highest_math_student_term_one),
      "The SID is " \o Format(lowest_cs_student_term_two),
      "The subject is " \o Format(highest_trend_subject)>>

\* open('StudentScoresAnalysis.txt', 'w') truncates the file.
OpenReport ==
    /\ pc = "open_report"
    /\ report' = [opened |-> TRUE, lines |-> <<>>]
    /\ pc' = After("open_report")
    /\ UNCHANGED <<error, data_list, analysed, selected>>

WriteLine ==
    /\ pc = "write"
    /\ Len(report.lines) < Len(ReportLines)
    /\ report' = [report EXCEPT !.lines = Append(@, ReportLines[Len(@) + 1])]
    /\ UNCHANGED <<pc, error, data_list, analysed, selected>>

CloseReport ==
    /\ pc = "write"
    /\ Len(report.lines) = Len(ReportLines)
    /\ pc' = After("write")
    /\ UNCHANGED <<error, data_list, analysed, selected, report>>

PrintComplete ==
    /\ pc = "print"
    /\ pc' = After("print")
    /\ UNCHANGED <<error, data_list, analysed, selected, report>>

Next ==
    \/ Prompt
    \/ OpenCsv
    \/ FileNotFound
    \/ SkipHeader
    \/ EmptyFile
    \/ ReadRow
    \/ BadScore
    \/ ShortRow
    \/ EndOfRows
    \/ CalcStudentAverages
    \/ CalcClassAverages
    \/ IdentifyHighest
    \/ IdentifyLowest
    \/ AnalyzeTrends
    \/ AnalyzeTrendsRaises
    \/ MostImproved
    \/ SelectHighestTermOneSubject
    \/ SelectHighestMathStudent
    \/ SelectLowestCsStudent
    \/ SelectHighestTrendSubject
    \/ OpenReport
    \/ WriteLine
    \/ CloseReport
    \/ PrintComplete

Spec == Init /\ [][Next]_vars

(* ---------------- get_most_improved_student called directly ----------- *)

AverageEntries ==
    {<<term, sid, Quot(n, Len(subjects))>> : term \in {"1", "2"}, sid \in StudentIds, n \in 0..MaxSum}

\* The lists with at most one entry per (term, sid), as calculate_student_averages
\* returns them, in any order.
AverageLists ==
    UNION {{l \in [1..n -> AverageEntries] :
               \A i, j \in 1..n : (i < j) => (l[i][1] # l[j][1] \/ l[i][2] # l[j][2])}
           : n \in 0..MaxEntries}

InitImproved ==
    /\ pc = "most_improved_student"
    /\ error = ""
    /\ data_list = <<>>
    /\ student_averages \in AverageLists
    /\ class_averages = <<>>
    /\ highest_students = <<>>
    /\ lowest_students = <<>>
    /\ performance_trends = <<>>
    /\ most_improved_student = None
    /\ highest_term_one_subject = None
    /\ highest_math_student_term_one = None
    /\ lowest_cs_student_term_two = None
    /\ highest_trend_subject = None
    /\ report = NoReport

NextImproved == MostImproved

SpecImproved == InitImproved /\ [][NextImproved]_vars

(* ------------------------------ properties ---------------------------- *)

\* The call at statement `step` of main() has just returned.
Returned(step) == pc = After(step)

TermNames == {"1", "2"}

HasRecord(term) == \E i \in DOMAIN data_list : data_list[i][2] = term

\* The last record of data_list that carries (sid, term).
LastRecord(sid, term) ==
    LET hits == {i \in DOMAIN data_list : data_list[i][1] = sid /\ data_list[i][2] = term}
    IN  data_list[CHOOSE i \in hits : \A j \in hits : j <= i]

HasPair(sid, term) == \E i \in DOMAIN data_list : data_list[i][1] = sid /\ data_list[i][2] = term

\* C1: calculate_student_averages returns exactly one entry [term, sid, average]
\* per (sid, term) pair of the input and none for any other pair, and the
\* average is the mean of the scores of the last record with that pair.
C1_LastWriteWins ==
    Returned("student_averages") =>
        /\ \A k \in DOMAIN student_averages :
               HasPair(student_averages[k][2], student_averages[k][1])
        /\ \A sid \in StudentIds, term \in TermNames :
               HasPair(sid, term) =>
                   LET hits == {k \in DOMAIN student_averages :
                                   student_averages[k][1] = term /\ student_averages[k][2] = sid}
                       scores == SubSeq(LastRecord(sid, term), 3, 10)
                   IN  /\ Cardinality(hits) = 1
                       /\ \A k \in hits :
                              student_averages[k][3].num * Len(scores)
                                  = Sum(scores) * student_averages[k][3].den

\* A pair occurs twice with score vectors of different means, and the averages
\* have been computed.
C1_Witness ==
    /\ Returned("student_averages")
    /\ \E i, j \in DOMAIN data_list :
           /\ i < j
           /\ data_list[i][1] = data_list[j][1]
           /\ data_list[i][2] = data_list[j][2]
           /\ Sum(SubSeq(data_list[i], 3, 10)) # Sum(SubSeq(data_list[j], 3, 10))

SubjectIndex(subject) == CHOOSE i \in DOMAIN subjects : subjects[i] = subject

RECURSIVE ColumnSum(_, _, _)
ColumnSum(rows, term, column) ==
    IF rows = <<>> THEN 0
    ELSE (IF Head(rows)[2] = term THEN Head(rows)[column] ELSE 0)
         + ColumnSum(Tail(rows), term, column)

RecordCount(term) == Cardinality({i \in DOMAIN data_list : data_list[i][2] = term})

\* The (term, subject) pairs of a derived list, in its order.
PairsOf(list) == [k \in DOMAIN list |-> <<list[k][1], list[k][2]>>]

\* One pair per subject for each term that has a record, term "1" first, the
\* subjects in the fixed order.
OrderedPairs(list) ==
    /\ \A k \in DOMAIN list : list[k][1] \in TermNames /\ HasRecord(list[k][1])
    /\ \A term \in TermNames, i \in DOMAIN subjects :
           HasRecord(term) =>
               Cardinality({k \in DOMAIN list :
                               list[k][1] = term /\ list[k][2] = subjects[i]}) = 1
    /\ \A i, j \in DOMAIN list :
           (i < j) =>
               /\ list[i][1] = "1" \/ list[j][1] = "2"
               /\ (list[i][1] = list[j][1]) =>
                      SubjectIndex(list[i][2]) < SubjectIndex(list[j][2])

\* C2: calculate_class_averages returns one entry per (term, subject) for each
\* term with a record and none for a term without, term "1" before term "2" and
\* the subjects in the fixed order, each average being the sum of the subject's
\* scores over the records of the term divided by their number.
C2_ClassAverages ==
    Returned("class_averages") =>
        /\ OrderedPairs(class_averages)
        /\ \A k \in DOMAIN class_averages :
               LET term == class_averages[k][1]
                   column == SubjectIndex(class_averages[k][2]) + 2
               IN  class_averages[k][3].num * RecordCount(term)
                       = ColumnSum(data_list, term, column) * class_averages[k][3].den

\* Both terms have records, one of them two records with different Chi scores.
C2_Witness ==
    /\ Returned("class_averages")
    /\ HasRecord("1") /\ HasRecord("2")
    /\ \E i, j \in DOMAIN data_list :
           i # j /\ data_list[i][2] = data_list[j][2] /\ data_list[i][3] # data_list[j][3]
    /\ Len(class_averages) = LoopLength

TermIndexes(term) == {i \in DOMAIN data_list : data_list[i][2] = term}

\* The first record of `term`, in input order, whose score in `column` is `score`.
FirstWithScore(term, column, score) ==
    LET hits == {i \in TermIndexes(term) : data_list[i][column] = score}
    IN  data_list[CHOOSE i \in hits : \A j \in hits : i <= j]

\* `list` names, for each term with a record and each subject, the extreme
\* score of the term's records and the first record that attains it.
ExtremesAreFirst(list, IsExtreme(_, _)) ==
    /\ OrderedPairs(list)
    /\ \A k \in DOMAIN list :
           LET term == list[k][1]
               column == SubjectIndex(list[k][2]) + 2
           IN  /\ \E i \in TermIndexes(term) : data_list[i][column] = list[k][4]
               /\ \A i \in TermIndexes(term) : IsExtreme(list[k][4], data_list[i][column])
               /\ list[k][3] = FirstWithScore(term, column, list[k][4])[1]

\* C3: for every term with a record and every subject the highest (lowest)
\* list holds one entry whose score is the maximum (minimum) of the subject
\* over the records of the term and whose student is that of the first record
\* of the term attaining it; a term without record has no entry.
C3_FirstExtreme ==
    Returned("lowest_students") =>
        /\ ExtremesAreFirst(highest_students, LAMBDA best, other : best >= other)
        /\ ExtremesAreFirst(lowest_students, LAMBDA best, other : best <= other)

\* Two students of one term tie on the maximum of a subject and on the minimum
\* of a subject.
C3_Witness ==
    /\ Returned("lowest_students")
    /\ \E i, j \in DOMAIN data_list :
           /\ i < j
           /\ data_list[i][2] = data_list[j][2]
           /\ data_list[i][1] # data_list[j][1]
           /\ \E column \in 3..10 :
                  /\ data_list[i][column] = data_list[j][column]
                  /\ \A l \in TermIndexes(data_list[i][2]) :
                         data_list[l][column] <= data_list[i][column]
           /\ \E column \in 3..10 :
                  /\ data_list[i][column] = data_list[j][column]
                  /\ \A l \in TermIndexes(data_list[i][2]) :
                         data_list[l][column] >= data_list[i][column]

AverageOf(sid, term) ==
    student_averages[CHOOSE k \in DOMAIN student_averages :
                         student_averages[k][1] = term /\ student_averages[k][2] = sid][3]

HasAverage(sid, term) ==
    \E k \in DOMAIN student_averages :
        student_averages[k][1] = term /\ student_averages[k][2] = sid

BothTerms == {sid \in StudentIds : HasAverage(sid, "1") /\ HasAverage(sid, "2")}

Improvement(sid) == RatSub(AverageOf(sid, "2"), AverageOf(sid, "1"))

FirstEntry(sid) ==
    CHOOSE k \in DOMAIN student_averages :
        /\ student_averages[k][2] = sid
        /\ \A j \in DOMAIN student_averages : student_averages[j][2] = sid => k <= j

\* C4: get_most_improved_student returns None exactly when no student has an
\* average for both terms; otherwise it returns a student with both terms
\* whose improvement (term 2 minus term 1) no other such student exceeds, and
\* among the students of that improvement the one met first in the list.
C4_MostImproved ==
    Returned("most_improved_student") =>
        /\ (most_improved_student = None) <=> (BothTerms = {})
        /\ (BothTerms # {}) =>
               /\ most_improved_student \in BothTerms
               /\ \A sid \in BothTerms :
                      /\ ~RatLess(Improvement(most_improved_student), Improvement(sid))
                      /\ RatEq(Improvement(sid), Improvement(most_improved_student))
                             => FirstEntry(most_improved_student) <= FirstEntry(sid)

\* Two students share the maximal improvement, which is negative, and the one
\* returned is met first although its term-1 entry is not the first entry.
C4_Witness ==
    /\ Returned("most_improved_student")
    /\ Cardinality(BothTerms) = 2
    /\ \A sid \in BothTerms :
           /\ RatEq(Improvement(sid), Improvement(most_improved_student))
           /\ RatLess(Improvement(sid), Quot(0, 1))
    /\ student_averages[1][2] = most_improved_student
    /\ student_averages[1][1] = "2"

\* One student has a single term only and a high average, the other both terms.
C4_WitnessPartial ==
    /\ Returned("most_improved_student")
    /\ Cardinality(BothTerms) = 1
    /\ \E sid \in StudentIds \ BothTerms :
           /\ HasAverage(sid, "2")
           /\ RatLess(Improvement(most_improved_student), AverageOf(sid, "2"))

\* C5: every aggregation and selection function returns a result for every
\* dataset of well-formed records, whatever the scores (0 included): none of
\* them raises.
C5_AnalysisTotal == ~(pc = "traceback" /\ error = "ZeroDivisionError")

\* The students with a record in both terms.
StudentsOfBothTerms == {sid \in StudentIds : HasPair(sid, "1") /\ HasPair(sid, "2")}

\* C6: each of the five values of the report is "N/A" when no qualifying value
\* exists for it; the first line carries "N/A" when no student has records in
\* both terms.
C6_SentinelNA ==
    (pc = "done") =>
        /\ (StudentsOfBothTerms = {}) => report.lines[1] = "The SID is N/A"
        /\ ~HasRecord("1") => report.lines[2] = "The subject is N/A"
        /\ ~HasRecord("1") => report.lines[3] = "The SID is N/A"
        /\ ~HasRecord("2") => report.lines[4] = "The SID is N/A"
        /\ (\A k \in DOMAIN performance_trends : ~RatPositive(performance_trends[k][2]))
               => report.lines[5] = "The subject is N/A"

\* C7: a run that ends in sys.exit(1) or in an uncaught exception, of the
\* ingestion or of an analysis step, has not opened the report; the report is
\* opened only once every analysis and selection statement has completed; and
\* a run that completes has written the five lines.
C7_ReportAfterAnalysis ==
    /\ (pc \in {"exit_1", "traceback"}) => report = NoReport
    /\ report.opened => pc \in {"write", "print", "done"}
    /\ (pc \in {"print", "done"}) =>
           /\ report.opened
           /\ report.lines = ReportLines
           /\ Len(report.lines) = 5

\* The trend analysis raised ZeroDivisionError after the four aggregations had
\* returned their lists, and no report exists.
C7_Witness ==
    /\ pc = "traceback"
    /\ error = "ZeroDivisionError"
    /\ class_averages # <<>>
    /\ lowest_students # <<>>
    /\ report = NoReport

\* A run whose ingestion failed on a row after rows had been read.
C7_WitnessIngestion ==
    /\ pc = "exit_1"
    /\ error = "ValueError"
    /\ report = NoReport

\* The class average main() holds for (term, subject).
ClassAverageOf(term, subject) ==
    class_averages[CHOOSE k \in DOMAIN class_averages :
                       class_averages[k][1] = term /\ class_averages[k][2] = subject][3]

\* ((term-2 average - term-1 average) / term-1 average) * 100
PercentOf(subject) ==
    RatTimes(RatDiv(RatSub(ClassAverageOf("2", subject), ClassAverageOf("1", subject)),
                    ClassAverageOf("1", subject)), 100)

\* One entry per subject, in the fixed order, when both terms have a record,
\* and no entry otherwise.
TrendSubjects ==
    IF HasRecord("1") /\ HasRecord("2")
    THEN [k \in DOMAIN performance_trends |-> performance_trends[k][1]] = subjects
    ELSE performance_trends = <<>>

Abs(x) == IF x < 0 THEN -x ELSE x

\* value is the multiple of 1/100 nearest to x, the even one of two nearest.
IsRounded2(value, x) ==
    LET p == x.num * Sign(x.den) * 100
        q == x.den * Sign(x.den)
        h == (100 * value.num) \div value.den
    IN  /\ (100 * value.num) % value.den = 0
        /\ 2 * Abs(h * q - p) <= q
        /\ (2 * Abs(h * q - p) = q) => h % 2 = 0

\* C8 as stated: analyze_performance_trends returns an entry per subject, in
\* the fixed order, exactly when both terms have a record, and the value of an
\* entry whose term-1 class average is not 0 is
\* ((term-2 average - term-1 average) / term-1 average) * 100.
C8_ExactPercent ==
    Returned("performance_trends") =>
        /\ TrendSubjects
        /\ \A k \in DOMAIN performance_trends :
               ~RatIsZero(ClassAverageOf("1", performance_trends[k][1])) =>
                   RatEq(performance_trends[k][2], PercentOf(performance_trends[k][1]))

\* Some subject has records in both terms and a term-1 class average of 0.
ZeroTermOneAverage ==
    /\ HasRecord("1") /\ HasRecord("2")
    /\ \E i \in DOMAIN subjects : ColumnSum(data_list, "1", i + 2) = 0

\* C8, amended: analyze_performance_trends raises ZeroDivisionError exactly when
\* both terms have a record and some term-1 class average is 0; otherwise it
\* returns an entry per subject, in the fixed order, exactly when both terms
\* have a record, and the value of each entry is
\* ((term-2 average - term-1 average) / term-1 average) * 100 rounded to two
\* decimals.
C8_RoundedPercent ==
    /\ (pc = "traceback" /\ error = "ZeroDivisionError") => ZeroTermOneAverage
    /\ Returned("performance_trends") =>
           /\ ~ZeroTermOneAverage
           /\ TrendSubjects
           /\ \A k \in DOMAIN performance_trends :
                  IsRounded2(performance_trends[k][2], PercentOf(performance_trends[k][1]))

\* The trends were returned, Math rose from 50 to 75 and its entry is 50, and
\* the entry of another subject is not the exact percentage.
C8_Witness ==
    /\ Returned("performance_trends")
    /\ performance_trends # <<>>
    /\ RatEq(ClassAverageOf("1", "Math"), Quot(50, 1))
    /\ RatEq(ClassAverageOf("2", "Math"), Quot(75, 1))
    /\ RatEq(performance_trends[3][2], Quot(50, 1))
    /\ \E k \in DOMAIN performance_trends :
           ~RatEq(performance_trends[k][2], PercentOf(performance_trends[k][1]))

AnalysisSteps ==
    {"student_averages", "class_averages", "highest_students", "lowest_students",
     "performance_trends", "most_improved_student"}

====
